---- MODULE Spec2Model ----
(***************************************************************************)
(* Event-log viewer and summariser (view-events.py, summarize-events.py).  *)
(*                                                                         *)
(* A log file is modelled as the sequence of its lexical tokens: braces,   *)
(* commas, "key": value members, "key": prefixes of nested objects, and    *)
(* line breaks (a line break token stands for the newline and the          *)
(* indentation that follows it).  json.loads is modelled by a recursive    *)
(* descent parser over those tokens, the regular expression of             *)
(* summarize_events by a scanner over them.                                *)
(*                                                                         *)
(* Spec        : an external writer appends well-formed records token by   *)
(*               token while read_events_file is run at arbitrary points.  *)
(* SpecFaulty  : the same, and the writer may leave one fragment behind.   *)
(* SpecCli     : main() of view-events.py over a store of complete files.  *)
(* SpecSummary : summarize_events() over a complete file.                  *)
(***************************************************************************)
EXTENDS Integers, Sequences, FiniteSets, TLC

VARIABLES
    log,        \* tokens of today's events file, in file order
    pending,    \* tokens of the record being written that are not on disk yet
    cur,        \* the entry being written, <<>> when the writer is idle
    written,    \* entries completely on disk, in file order
    torn,       \* TRUE once the writer left a never-closing fragment behind
    tornAt,     \* how many complete records precede that fragment
    events,     \* the `events` list of read_events_file / main
    fresh,      \* TRUE while `events` is the read of the current log
    argv,       \* sys.argv of the running main()
    pc,         \* position of main(): dispatch, filter, last, display, returned, raised
    before,     \* value of `events` before the last step of main()
    out,        \* what main() printed so far
    summary     \* what summarize_events printed: [ran, lines, total]

vars == <<log, pending, cur, written, torn, tornAt, events, fresh, argv, pc, before, out, summary>>

writerVars == <<log, pending, cur, written, torn, tornAt>>
cliVars == <<argv, pc, before, out>>

(***************************************************************************)
(* Bounds of the model.                                                    *)
(***************************************************************************)
MaxRecords == 2         \* complete records the writer puts in the log (Spec)
MaxFileRecords == 2     \* records of a complete file (SpecCli, SpecSummary)

(***************************************************************************)
(* Tokens of the file text.                                                *)
(***************************************************************************)
Tok(t, k, v) == [t |-> t, k |-> k, v |-> v]
Open == Tok("{", "", "")
Close == Tok("}", "", "")
Comma == Tok(",", "", "")
NL == Tok("nl", "", "")
Member(k, v) == Tok("member", k, v)
Key(k) == Tok("key", k, "")

(***************************************************************************)
(* The records the external writer emits, and their two layouts.           *)
(* details says where the nested eventDetails object stands: absent,       *)
(* between the other members, or last.                                     *)
(***************************************************************************)
T1 == "2025-08-18T10:00:01"
T2 == "2025-08-18T10:00:02"
T3 == "2025-08-18T10:00:03"

Records ==
    { [timestamp |-> T2, eventCategory |-> "STATE_CHANGE", eventType |-> "ANSWER",
       machineId |-> "call-001", details |-> "none"],
      [timestamp |-> T3, eventCategory |-> "WEBSOCKET_IN", eventType |-> "INCOMING_CALL",
       machineId |-> "call-002", details |-> "last"],
      [timestamp |-> T1, eventCategory |-> "WEBSOCKET_OUT", eventType |-> "STATE_CHANGE",
       machineId |-> "call-001", details |-> "mid"] }

\* A record without machineId ("" stands for: the member is not written).
RegistryRecord ==
    [timestamp |-> T1, eventCategory |-> "REGISTRY_CREATE", eventType |-> "CREATE",
     machineId |-> "", details |-> "none"]

FileRecords == Records \cup {RegistryRecord}

Layouts == {"compact", "pretty"}

DetailsValue == [phoneNumber |-> "+1-555-1234"]

\* The dictionary a record stands for.
EventOf(rec) ==
    LET keys == {"timestamp", "eventCategory", "eventType"}
                \cup (IF rec.machineId # "" THEN {"machineId"} ELSE {})
                \cup (IF rec.details # "none" THEN {"eventDetails"} ELSE {})
    IN  [k \in keys |-> IF k = "eventDetails" THEN DetailsValue ELSE rec[k]]

\* The members of a record in the order the writer emits them; det is the
\* text of the nested eventDetails object.
MemberTexts(rec, det) ==
    << <<Member("timestamp", rec.timestamp)>>,
       <<Member("eventCategory", rec.eventCategory)>>,
       <<Member("eventType", rec.eventType)>> >>
    \o (IF rec.details = "mid" THEN <<det>> ELSE <<>>)
    \o (IF rec.machineId # "" THEN << <<Member("machineId", rec.machineId)>> >> ELSE <<>>)
    \o (IF rec.details = "last" THEN <<det>> ELSE <<>>)

RECURSIVE JoinTexts(_, _)
JoinTexts(texts, sep) ==
    IF Len(texts) = 1 THEN texts[1]
    ELSE texts[1] \o sep \o JoinTexts(Tail(texts), sep)

\* {"timestamp": ..., "eventCategory": ..., ...} on one physical line.
RenderCompact(rec) ==
    LET det == <<Key("eventDetails"), Open, Member("phoneNumber", "+1-555-1234"), Close>>
    IN  <<Open>> \o JoinTexts(MemberTexts(rec, det), <<Comma>>) \o <<Close, NL>>

\* One member per physical line, braces of the record on lines of their own.
RenderPretty(rec) ==
    LET det == <<Key("eventDetails"), Open, NL,
                 Member("phoneNumber", "+1-555-1234"), NL, Close>>
    IN  <<Open, NL>> \o JoinTexts(MemberTexts(rec, det), <<Comma, NL>>) \o <<NL, Close, NL>>

Render(rec, layout) == IF layout = "compact" THEN RenderCompact(rec) ELSE RenderPretty(rec)

Entry(rec, layout) == [rec |-> rec, layout |-> layout]

RECURSIVE RenderLog(_)
RenderLog(entries) ==
    IF entries = <<>> THEN <<>>
    ELSE Render(Head(entries).rec, Head(entries).layout) \o RenderLog(Tail(entries))

\* The records of a sequence of entries, as dictionaries, in file order.
Expected(entries) == [i \in 1..Len(entries) |-> EventOf(entries[i].rec)]

IsPrefix(s, t) == Len(s) <= Len(t) /\ \A i \in 1..Len(s) : s[i] = t[i]

(***************************************************************************)
(* json.loads on a token text: an object is { }, or { member, ... } where  *)
(* a member is "key": scalar or "key": object.  A later duplicate key      *)
(* wins.  Anything else, and any text after the object, is rejected        *)
(* (json.JSONDecodeError).                                                 *)
(***************************************************************************)
EmptyObj == [x \in {} |-> ""]
ParseFail == [ok |-> FALSE, val |-> EmptyObj, next |-> 0]

DictSet(d, k, v) == [x \in DOMAIN d \cup {k} |-> IF x = k THEN v ELSE d[x]]

RECURSIVE ParseObject(_, _), ParseMember(_, _, _), AfterMember(_, _, _)
ParseObject(toks, i) ==
    IF i > Len(toks) \/ toks[i].t # "{" THEN ParseFail
    ELSE IF i + 1 <= Len(toks) /\ toks[i + 1].t = "}"
         THEN [ok |-> TRUE, val |-> EmptyObj, next |-> i + 2]
         ELSE ParseMember(toks, i + 1, EmptyObj)

ParseMember(toks, i, acc) ==
    IF i > Len(toks) THEN ParseFail
    ELSE IF toks[i].t = "member"
         THEN AfterMember(toks, i + 1, DictSet(acc, toks[i].k, toks[i].v))
    ELSE IF toks[i].t = "key"
         THEN LET r == ParseObject(toks, i + 1)
              IN  IF r.ok THEN AfterMember(toks, r.next, DictSet(acc, toks[i].k, r.val))
                  ELSE ParseFail
    ELSE ParseFail

AfterMember(toks, i, acc) ==
    IF i > Len(toks) THEN ParseFail
    ELSE IF toks[i].t = "," THEN ParseMember(toks, i + 1, acc)
    ELSE IF toks[i].t = "}" THEN [ok |-> TRUE, val |-> acc, next |-> i + 1]
    ELSE ParseFail

NotWhitespace(tk) == tk.t # "nl"

json_loads(text) ==
    LET toks == SelectSeq(text, NotWhitespace)
        r == ParseObject(toks, 1)
    IN  IF r.ok /\ r.next = Len(toks) + 1
        THEN [ok |-> TRUE, val |-> r.val]
        ELSE [ok |-> FALSE, val |-> EmptyObj]

(***************************************************************************)
(* Physical lines: the text split at line breaks, each line stripped.      *)
(***************************************************************************)
RECURSIVE SplitLines(_, _, _)
SplitLines(text, i, line) ==
    IF i > Len(text) THEN <<line>>
    ELSE IF text[i].t = "nl" THEN <<line>> \o SplitLines(text, i + 1, <<>>)
    ELSE SplitLines(text, i + 1, Append(line, text[i]))

Lines(text) == SplitLines(text, 1, <<>>)

(***************************************************************************)
(* read_events_file (view-events.py).                                      *)
(***************************************************************************)
\* events.insert(0, event) in place of events.append(event)
AppendEventReversed(evs, event) == <<event>> \o evs

\* events.append(event)
AppendEvent(evs, event) == Append(evs, event)

\* if line == '}'
ClosesRecord(line) == line = <<Close>>

RECURSIVE ReadLines(_, _, _, _)
ReadLines(lines, i, current_json, evs) ==
    IF i > Len(lines) THEN evs
    ELSE LET line == lines[i] IN
         IF line = <<>> THEN ReadLines(lines, i + 1, current_json, evs)
         ELSE LET buf == current_json \o line IN
              IF ClosesRecord(line)
              THEN LET r == json_loads(buf)
                   IN  IF r.ok
                       THEN ReadLines(lines, i + 1, <<>>, AppendEvent(evs, r.val))
                       ELSE ReadLines(lines, i + 1, buf, evs)
              ELSE ReadLines(lines, i + 1, buf, evs)

read_events_file(text) == ReadLines(Lines(text), 1, <<>>, <<>>)

(***************************************************************************)
(* The external writer: appends one record after the other, token by       *)
(* token.  Under SpecFaulty it may die in the middle of a record (once)    *)
(* and start again on a fresh line, which leaves a fragment that never     *)
(* closes.                                                                 *)
(***************************************************************************)
Idle == <<>>

BeginRecord(rec, layout) ==
    /\ pending = <<>>
    /\ Len(written) < MaxRecords
    /\ cur' = Entry(rec, layout)
    /\ pending' = Tail(Render(rec, layout))
    /\ log' = Append(log, Head(Render(rec, layout)))
    /\ fresh' = FALSE
    /\ UNCHANGED <<written, torn, tornAt, events, summary>>
    /\ UNCHANGED cliVars

\* A record counts as written once its closing brace is on disk; the line
\* break that ends its last line follows as one more piece.
WritePiece ==
    /\ pending # <<>>
    /\ log' = Append(log, Head(pending))
    /\ pending' = Tail(pending)
    /\ written' = IF Tail(pending) = <<NL>> THEN Append(written, cur) ELSE written
    /\ cur' = IF Tail(pending) = <<>> THEN Idle ELSE cur
    /\ fresh' = FALSE
    /\ UNCHANGED <<torn, tornAt, events, summary>>
    /\ UNCHANGED cliVars

\* The writer dies before the closing brace of the record and starts again
\* on a fresh line.
Abandon ==
    /\ Len(pending) > 1
    /\ ~torn
    /\ torn' = TRUE
    /\ tornAt' = Len(written)
    /\ pending' = <<>>
    /\ cur' = Idle
    /\ log' = IF log[Len(log)].t = "nl" THEN log ELSE Append(log, NL)
    /\ fresh' = FALSE
    /\ UNCHANGED <<written, events, summary>>
    /\ UNCHANGED cliVars

\* One run of read_events_file over whatever is on disk now.
ReadEvents ==
    /\ events' = read_events_file(log)
    /\ fresh' = TRUE
    /\ UNCHANGED writerVars
    /\ UNCHANGED <<summary>>
    /\ UNCHANGED cliVars

NoSummary == [ran |-> FALSE, lines |-> <<>>, total |-> 0]

Init ==
    /\ log = <<>>
    /\ pending = <<>>
    /\ cur = Idle
    /\ written = <<>>
    /\ torn = FALSE
    /\ tornAt = 0
    /\ events = <<>>
    /\ fresh = FALSE
    /\ argv = <<>>
    /\ pc = "idle"
    /\ before = <<>>
    /\ out = <<>>
    /\ summary = NoSummary

\* A writer that only ever appends well-formed records, and a reader.
Next ==
    \/ \E rec \in Records, layout \in Layouts : BeginRecord(rec, layout)
    \/ WritePiece
    \/ ReadEvents

Spec == Init /\ [][Next]_vars

\* The same, with a writer that may leave one fragment behind.
NextFaulty ==
    \/ \E rec \in Records, layout \in Layouts : BeginRecord(rec, layout)
    \/ WritePiece
    \/ Abandon
    \/ ReadEvents

SpecFaulty == Init /\ [][NextFaulty]_vars

(***************************************************************************)
(* main() of view-events.py.                                               *)
(*                                                                         *)
(* The event store holds today's file (the text in `log`) and the file of  *)
(* one earlier date; MissingDate has no file.  argv[1] is the program      *)
(* name, so the code's sys.argv[i] is argv[i + 1] here.                    *)
(***************************************************************************)
Prog == "view-events.py"
Today == "2025-08-18"
OtherDate == "2025-08-17"
MissingDate == "2025-08-16"

OtherLog == RenderPretty(RegistryRecord)

StoreDates == {Today, OtherDate}
FileText(date) == IF date = Today THEN log ELSE OtherLog

\* The argument lists main() is run with: an optional first argument, the
\* --filter and --last groups in either order (each absent, without its
\* value, or with one), and an optional trailing flag.
FilterValues == {"STATE_CHANGE", "call-001", "HANGUP"}
LastValues == {"-1", "0", "1", "3", "abc"}
FirstArgs == {<<>>, <<OtherDate>>, <<MissingDate>>, <<"--help">>, <<"--stats">>}
FilterArgs == {<<>>, <<"--filter">>} \cup {<<"--filter", v>> : v \in FilterValues}
LastArgs == {<<>>, <<"--last">>} \cup {<<"--last", n>> : n \in LastValues}
TrailArgs == {<<>>, <<"--help">>, <<"--stats">>}
Argvs ==
    { <<Prog>> \o a \o b \o c \o d :
        a \in FirstArgs, b \in FilterArgs, c \in LastArgs, d \in TrailArgs }
    \cup
    { <<Prog>> \o a \o c \o b \o d :
        a \in FirstArgs, b \in FilterArgs, c \in LastArgs, d \in TrailArgs }

\* x in sys.argv, and sys.argv.index(x): the first position holding x.
InArgv(av, x) == \E i \in 1..Len(av) : av[i] = x
IndexOf(av, x) == CHOOSE i \in 1..Len(av) : av[i] = x /\ \A j \in 1..(i - 1) : av[j] # x

\* '--' in s, for the arguments of Argvs.
HasDashes(s) == s \in {"--help", "--stats", "--filter", "--last"}

\* int(s), for the arguments of Argvs: the decimal literals convert, every
\* other string raises ValueError.
IntLiterals == ("-1" :> (0 - 1)) @@ ("0" :> 0) @@ ("1" :> 1) @@ ("3" :> 3)
IsInt(s) == s \in DOMAIN IntLiterals
int(s) == IntLiterals[s]

\* today = sys.argv[1] when that holds no '--', else the current date.
ResolvedDate(av) ==
    IF Len(av) > 1 /\ ~HasDashes(av[2]) THEN av[2] ELSE Today

Item(kind, n, val) == [kind |-> kind, n |-> n, val |-> val]

\* The --stats report: number of files, total number of events.
RECURSIVE TotalEvents(_)
TotalEvents(dates) ==
    IF dates = {} THEN 0
    ELSE LET d == CHOOSE x \in dates : TRUE
         IN  Len(read_events_file(FileText(d))) + TotalEvents(dates \ {d})

StatsReport ==
    << Item("stats-files", Cardinality(StoreDates), ""),
       Item("stats-events", TotalEvents(StoreDates), "") >>

\* Lines 88-141: --help, --stats, the date, the missing file, the read.
Dispatch ==
    /\ pc = "dispatch"
    /\ before' = events
    /\ IF Len(argv) > 1 /\ argv[2] = "--help"
       THEN /\ out' = <<Item("usage", 0, "")>>
            /\ pc' = "returned"
            /\ UNCHANGED events
       ELSE IF Len(argv) > 1 /\ argv[2] = "--stats"
       THEN /\ out' = StatsReport
            /\ pc' = "returned"
            /\ UNCHANGED events
       ELSE IF ResolvedDate(argv) \notin StoreDates
       THEN /\ out' = <<Item("no-file", 0, ResolvedDate(argv)),
                        Item("available", Cardinality(StoreDates), "")>>
            /\ pc' = "returned"
            /\ UNCHANGED events
       ELSE /\ events' = read_events_file(FileText(ResolvedDate(argv)))
            /\ out' = <<>>
            /\ pc' = "filter"
    /\ UNCHANGED writerVars
    /\ UNCHANGED <<fresh, argv, summary>>

\* event.get(key): None when the key is absent, and no string equals None.
FieldIs(event, key, val) == key \in DOMAIN event /\ event[key] = val

\* The same test without the machineId comparison.
FilterMatchesNoMachine(filter_val, event) ==
    \/ FieldIs(event, "eventCategory", filter_val)
    \/ FieldIs(event, "eventType", filter_val)

\* Lines 151-153.
FilterMatches(filter_val, event) ==
    \/ FieldIs(event, "eventCategory", filter_val)
    \/ FieldIs(event, "eventType", filter_val)
    \/ FieldIs(event, "machineId", filter_val)

\* Lines 148-154: the loop that collects the matching events.
RECURSIVE FilterLoop(_, _, _, _)
FilterLoop(evs, i, filter_val, filtered) ==
    IF i > Len(evs) THEN filtered
    ELSE FilterLoop(evs, i + 1, filter_val,
                    IF FilterMatches(filter_val, evs[i])
                    THEN Append(filtered, evs[i]) ELSE filtered)

\* if '--filter' in sys.argv ... if filter_idx + 1 < len(sys.argv)
FilterGiven(av) == InArgv(av, "--filter") /\ IndexOf(av, "--filter") + 1 <= Len(av)
FilterValue(av) == av[IndexOf(av, "--filter") + 1]

\* Lines 143-156.
ApplyFilter ==
    /\ pc = "filter"
    /\ before' = events
    /\ IF FilterGiven(argv)
       THEN LET filtered == FilterLoop(events, 1, FilterValue(argv), <<>>)
            IN  /\ events' = filtered
                /\ out' = Append(out, Item("filtered", Len(filtered), FilterValue(argv)))
       ELSE UNCHANGED <<events, out>>
    /\ pc' = "last"
    /\ UNCHANGED writerVars
    /\ UNCHANGED <<fresh, argv, summary>>

\* seq[start:] of Python: a negative start counts from the end, and the
\* start is clamped to the sequence.
PySliceFrom(seq, start) ==
    LET n == Len(seq)
        from == IF start < 0 THEN (IF n + start < 0 THEN 0 ELSE n + start)
                ELSE (IF start > n THEN n ELSE start)
    IN  SubSeq(seq, from + 1, n)

LastGiven(av) == InArgv(av, "--last") /\ IndexOf(av, "--last") + 1 <= Len(av)
LastValue(av) == av[IndexOf(av, "--last") + 1]

\* Lines 158-164: int() raises ValueError on a value that is no number, and
\* nothing catches it.
HandleLast ==
    /\ pc = "last"
    /\ before' = events
    /\ IF LastGiven(argv)
       THEN IF IsInt(LastValue(argv))
            THEN LET last_n == int(LastValue(argv))
                 IN  /\ events' = PySliceFrom(events, 0 - last_n)
                     /\ out' = Append(out, Item("last", last_n, ""))
                     /\ pc' = "display"
            ELSE /\ pc' = "raised"
                 /\ UNCHANGED <<events, out>>
       ELSE /\ pc' = "display"
            /\ UNCHANGED <<events, out>>
    /\ UNCHANGED writerVars
    /\ UNCHANGED <<fresh, argv, summary>>

\* Lines 166-174: the header, one block per event, the closing count.
Display ==
    /\ pc = "display"
    /\ before' = events
    /\ out' = out \o <<Item("header", Len(events), ResolvedDate(argv))>>
                  \o [i \in 1..Len(events) |-> Item("event", i, "")]
                  \o <<Item("displayed", Len(events), "")>>
    /\ pc' = "returned"
    /\ UNCHANGED writerVars
    /\ UNCHANGED <<events, fresh, argv, summary>>

\* Complete files of at most MaxFileRecords records.
EntriesOf(recs, layouts) ==
    UNION { [1..n -> {Entry(r, l) : r \in recs, l \in layouts}] : n \in 0..MaxFileRecords }

InitCli ==
    /\ written \in EntriesOf(FileRecords, {"pretty"})
    /\ log = RenderLog(written)
    /\ pending = <<>>
    /\ cur = Idle
    /\ torn = FALSE
    /\ tornAt = 0
    /\ events = <<>>
    /\ fresh = FALSE
    /\ argv \in Argvs
    /\ pc = "dispatch"
    /\ before = <<>>
    /\ out = <<>>
    /\ summary = NoSummary

NextCli ==
    \/ Dispatch
    \/ ApplyFilter
    \/ HandleLast
    \/ Display

SpecCli == InitCli /\ [][NextCli]_vars


(***************************************************************************)
(* summarize_events (summarize-events.py).                                 *)
(***************************************************************************)
\* re.findall(r'\{"timestamp"[^}]+\}(?:\s*\})?', content) from position p:
\* a match opens at a brace directly followed by "timestamp", runs to the
\* first closing brace after it, and takes one more closing brace when only
\* white space stands between the two.  Matches do not overlap.
IsAnchor(text, i) ==
    /\ text[i].t = "{"
    /\ i + 1 <= Len(text)
    /\ text[i + 1].t \in {"member", "key"}
    /\ text[i + 1].k = "timestamp"

RECURSIVE SkipWhitespace(_, _)
SkipWhitespace(text, i) ==
    IF i <= Len(text) /\ text[i].t = "nl" THEN SkipWhitespace(text, i + 1) ELSE i

RECURSIVE FindAll(_, _)
FindAll(text, p) ==
    LET starts == { i \in p..Len(text) :
                      IsAnchor(text, i) /\ \E j \in (i + 2)..Len(text) : text[j].t = "}" }
    IN  IF starts = {} THEN <<>>
        ELSE LET i == CHOOSE x \in starts : \A y \in starts : x <= y
                 j == CHOOSE x \in (i + 2)..Len(text) :
                         /\ text[x].t = "}"
                         /\ \A y \in (i + 2)..(x - 1) : text[y].t # "}"
                 k == SkipWhitespace(text, j + 1)
                 end == IF k <= Len(text) /\ text[k].t = "}" THEN k ELSE j
             IN  <<SubSeq(text, i, end)>> \o FindAll(text, end + 1)

\* if line.strip().endswith('}')
EndsWithBrace(line) == line[Len(line)].t = "}"

\* Lines 28-39: the line-oriented pass, run over the whole content.
RECURSIVE MultiLinePass(_, _, _, _)
MultiLinePass(lines, i, current_json, evs) ==
    IF i > Len(lines) THEN evs
    ELSE LET line == lines[i] IN
         IF line = <<>> THEN MultiLinePass(lines, i + 1, current_json, evs)
         ELSE LET buf == current_json \o line IN
              IF EndsWithBrace(line)
              THEN LET r == json_loads(buf)
                   IN  IF r.ok
                       THEN MultiLinePass(lines, i + 1, <<>>, Append(evs, r.val))
                       ELSE MultiLinePass(lines, i + 1, buf, evs)
              ELSE MultiLinePass(lines, i + 1, buf, evs)

\* Lines 19-39: each candidate is parsed; a candidate that does not parse
\* starts the line-oriented pass over the whole content, which appends to
\* the same list.  (A candidate always ends with a brace, so line 23 never
\* runs.)
RECURSIVE ParseCandidates(_, _, _, _)
ParseCandidates(content, cands, i, evs) ==
    IF i > Len(cands) THEN evs
    ELSE LET r == json_loads(cands[i])
         IN  IF r.ok
             THEN ParseCandidates(content, cands, i + 1, Append(evs, r.val))
             ELSE ParseCandidates(content, cands, i + 1,
                                  MultiLinePass(Lines(content), 1, <<>>, evs))

ParseContent(content) == ParseCandidates(content, FindAll(content, 1), 1, <<>>)

\* x.get('timestamp', '') and the order of str on the timestamps of the model.
TimestampKey(event) == IF "timestamp" \in DOMAIN event THEN event["timestamp"] ELSE ""
StrRank(str) == CASE str = "" -> 0 [] str = T1 -> 1 [] str = T2 -> 2 [] str = T3 -> 3
KeyLeq(a, b) == StrRank(TimestampKey(a)) <= StrRank(TimestampKey(b))

\* events.sort(key=...): ascending and stable.
RECURSIVE InsertSorted(_, _)
InsertSorted(sorted, event) ==
    IF sorted = <<>> THEN <<event>>
    ELSE IF KeyLeq(sorted[Len(sorted)], event) THEN Append(sorted, event)
    ELSE Append(InsertSorted(SubSeq(sorted, 1, Len(sorted) - 1), event), sorted[Len(sorted)])

RECURSIVE SortByTimestamp(_)
SortByTimestamp(evs) ==
    IF evs = <<>> THEN <<>>
    ELSE InsertSorted(SortByTimestamp(SubSeq(evs, 1, Len(evs) - 1)), evs[Len(evs)])

\* Lines 50-99: the condensed line of one event.  time is the timestamp
\* (the code prints the eight characters after its 'T'); phrase names the
\* branch of the category table that is taken.
CondensedLine(event) ==
    LET category == IF "eventCategory" \in DOMAIN event THEN event["eventCategory"] ELSE "N/A"
        machine == IF "machineId" \in DOMAIN event THEN event["machineId"] ELSE "N/A"
        phrase == IF category \in {"REGISTRY_CREATE", "WEBSOCKET_IN", "WEBSOCKET_OUT",
                                   "STATE_CHANGE"}
                  THEN category ELSE "default"
    IN  [time |-> TimestampKey(event), machine |-> machine, phrase |-> phrase, event |-> event]

\* Lines 6-102 with the file present.
summarize_events(content) ==
    LET sorted == SortByTimestamp(ParseContent(content))
    IN  [ran |-> TRUE,
         lines |-> [i \in 1..Len(sorted) |-> CondensedLine(sorted[i])],
         total |-> Len(sorted)]

Summarize ==
    /\ ~summary.ran
    /\ summary' = summarize_events(log)
    /\ UNCHANGED writerVars
    /\ UNCHANGED <<events, fresh>>
    /\ UNCHANGED cliVars

InitSummary ==
    /\ written \in EntriesOf(FileRecords, Layouts)
    /\ log = RenderLog(written)
    /\ pending = <<>>
    /\ cur = Idle
    /\ torn = FALSE
    /\ tornAt = 0
    /\ events = <<>>
    /\ fresh = FALSE
    /\ argv = <<>>
    /\ pc = "idle"
    /\ before = <<>>
    /\ out = <<>>
    /\ summary = NoSummary

NextSummary == Summarize

SpecSummary == InitSummary /\ [][NextSummary]_vars

(***************************************************************************)
(* Claims about read_events_file under a concurrent writer (Spec).         *)
(***************************************************************************)
WriterIdle == pending = <<>>
MidRecord == Len(pending) > 1
AllPretty == \A i \in 1..Len(written) : written[i].layout = "pretty"
CompactEntries == [i \in 1..Len(written) |-> Entry(written[i].rec, "compact")]

\* C1: a read of a log that holds K well-formed records and nothing else
\* (each on one line or spread over several) yields exactly those K records,
\* content-equal and in file order.
C1_RecoveryCompleteness ==
    (fresh /\ WriterIdle) => events = Expected(written)

\* C2: a read taken while the writer is in the middle of a record (K complete
\* records followed by a non-closing fragment of the next) yields exactly the
\* K complete records.
C2_ReadDuringWrite ==
    (fresh /\ MidRecord) => events = Expected(written)

\* C3: the records recovered from a pretty-printed log are the records
\* recovered from the same records written one per line.
C3_MultiLineSameAsSingleLine ==
    (fresh /\ WriterIdle /\ AllPretty)
        => events = read_events_file(RenderLog(CompactEntries))

\* C4: with one never-closing fragment between well-formed records, every
\* well-formed record is still recovered; only the fragment is missing.
\* (Stated for pretty-printed records, which a fragment-free log gives back
\* in full, and for a fragment with a record before it and a record after.)
FragmentBetween == torn /\ 1 <= tornAt /\ tornAt < Len(written)
C4_FragmentOnlyLowersCount ==
    (fresh /\ WriterIdle /\ FragmentBetween /\ AllPretty) => events = Expected(written)

\* C10: with a writer that only appends well-formed records, what an earlier
\* read returned is a prefix of what any later read returns.
C10_MonotonicReads ==
    IsPrefix(events, read_events_file(log))

\* C10 witness: an earlier read returned a record, the writer went on, and a
\* read now returns strictly more.
C10_Witness ==
    /\ ~fresh
    /\ Len(events) >= 1
    /\ Len(read_events_file(log)) > Len(events)

(***************************************************************************)
(* Claims about main() (SpecCli).                                          *)
(***************************************************************************)
Min(a, b) == IF a <= b THEN a ELSE b
Tail_n(seq, n) == SubSeq(seq, Len(seq) - n + 1, Len(seq))

\* C5: --last N leaves the final min(N, L) events, in order, when N > 0, and
\* the full sequence when N <= 0.
C5_LastN ==
    (pc = "display" /\ LastGiven(argv) /\ IsInt(LastValue(argv)))
        => LET N == int(LastValue(argv))
           IN  IF N > 0 THEN events = Tail_n(before, Min(N, Len(before)))
               ELSE events = before

\* C6: --filter v leaves exactly the events whose eventCategory, eventType or
\* machineId equals v, in their original order.
Qualifies(event, v) ==
    \E key \in {"eventCategory", "eventType", "machineId"} :
        key \in DOMAIN event /\ event[key] = v

C6_Filter ==
    (pc = "last" /\ FilterGiven(argv))
        => LET Keep(event) == Qualifies(event, FilterValue(argv))
           IN  events = SelectSeq(before, Keep)

\* C6 witness: the filter has run with a machine identifier, kept an event
\* and dropped another.
C6_Witness ==
    /\ pc = "last" /\ FilterGiven(argv)
    /\ FilterValue(argv) = "call-001"
    /\ Len(events) >= 1
    /\ Len(events) < Len(before)

\* C7: a --last value that is no number is rejected with a message: the run
\* ends without an uncaught exception and without a filter-match line or an
\* event listing.
PartialOutput == \E i \in 1..Len(out) : out[i].kind \in {"filtered", "last", "header", "event", "displayed"}
C7_InvalidLastRejected ==
    (LastGiven(argv) /\ ~IsInt(LastValue(argv)) /\ pc \in {"returned", "raised"})
        => (pc = "returned" /\ ~PartialOutput)

\* C9: with --help or --stats anywhere in the argument list, the events of a
\* date are never displayed.
C9_ShortCircuit ==
    (InArgv(argv, "--help") \/ InArgv(argv, "--stats"))
        => \A i \in 1..Len(out) : out[i].kind \notin {"header", "event", "displayed"}

(***************************************************************************)
(* Claims about summarize_events (SpecSummary).                            *)
(***************************************************************************)
Occurrences(seq, x) == Cardinality({i \in 1..Len(seq) : seq[i] = x})
SameRecords(s, t) ==
    /\ Len(s) = Len(t)
    /\ \A i \in 1..Len(s) : Occurrences(s, s[i]) = Occurrences(t, s[i])

\* C8: the summary prints one line per record of the file, none omitted and
\* none twice, in ascending timestamp order, and the total is the number of
\* records of the file.
C8_SummaryOutput ==
    summary.ran =>
        /\ SameRecords([i \in 1..Len(summary.lines) |-> summary.lines[i].event],
                       Expected(written))
        /\ \A i \in 1..(Len(summary.lines) - 1) :
               StrRank(summary.lines[i].time) <= StrRank(summary.lines[i + 1].time)
        /\ summary.total = Len(written)

====
